---- MODULE Spec2Model ----
(***************************************************************************)
(* Model of the `ctr run` command (cmd/ctr/commands/run/run.go).           *)
(*                                                                         *)
(* One run of Command.Action is a sequential flow of fallible calls with   *)
(* a stack of deferred cleanups; the started task exits concurrently and   *)
(* delivers its exit status on the channel returned by task.Wait.          *)
(***************************************************************************)
EXTENDS Integers, Sequences, FiniteSets, TLC

\* ---------------------------------------------------------------- bounds
MaxArgs == 3
MaxCode == 2
MaxSignals == 1
MaxTokens == 4

Words == {"", "img", "c1"}
Codes == 0..MaxCode

RECURSIVE SeqsUpTo(_, _)
SeqsUpTo(S, n) ==
  IF n = 0 THEN {<<>>}
  ELSE LET shorter == SeqsUpTo(S, n - 1)
       IN shorter \cup {Append(s, w) : s \in {t \in shorter : Len(t) = n - 1}, w \in S}

\* ---------------------------------------------------------------- state
VARIABLES
  pc,         \* position of Command.Action
  tty,        \* context.Bool("tty")
  detach,     \* context.Bool("detach")
  rm,         \* context.Bool("rm")
  config,     \* context.IsSet("config")
  pidFile,    \* context.IsSet("pid-file")
  args,       \* context.Args()
  id,         \* local id
  ref,        \* local ref
  defers,     \* pending deferred calls, next to run first
  registered, \* every defer statement executed so far, in execution order
  calls,      \* every call issued so far, in order, with its result
  statusC,    \* the channel returned by task.Wait
  status,     \* local status (line 216)
  code,       \* local code (line 217)
  taskState,  \* the remote task: "none", "created", "running", "stopped"
  sigc,       \* the signal subscription: "none", "active", "stopped"
  sigq,       \* host signals caught by the subscription, not yet forwarded
  outcome,    \* the value Command.Action returns
  mtokens,    \* the key=value pieces the mount string is written from
  mstr,       \* parseMountFlag: the mount string m, as a sequence of symbols
  mount,      \* parseMountFlag: the returned specs.Mount
  merr,       \* parseMountFlag: the returned error
  mpc         \* parseMountFlag: "idle", "parse", "done"

vars == <<pc, tty, detach, rm, config, pidFile, args, id, ref, defers,
          registered, calls, statusC, status, code, taskState, sigc, sigq,
          outcome, mtokens, mstr, mount, merr, mpc>>

runVars == <<pc, tty, detach, rm, config, pidFile, args, id, ref, defers,
             registered, calls, statusC, status, code, taskState, sigc, sigq,
             outcome>>

mountVars == <<mtokens, mstr, mount, merr, mpc>>

flags == <<tty, detach, rm, config, pidFile, args>>

\* ---------------------------------------------------------------- values
Pending == [kind |-> "pending", msg |-> "", code |-> 0]
Nil == [kind |-> "nil", msg |-> "", code |-> 0]
Error(m) == [kind |-> "error", msg |-> m, code |-> 1]
\* cli.NewExitError(message, exitCode)
NewExitError(m, c) == [kind |-> "exit", msg |-> m, code |-> c]

MsgOnlyId == "with spec config file, only container id should be provided"
MsgRef == "image ref must be provided"
MsgId == "container id must be provided"

NoStatus == [code |-> 0, err |-> FALSE]
Statuses == [code : Codes, err : BOOLEAN]

Call(op, ok, deferred) == [op |-> op, ok |-> ok, deferred |-> deferred]

\* context.Args().First() and context.Args().Get(n): "" when out of range
First(a) == IF Len(a) >= 1 THEN a[1] ELSE ""
Get(a, n) == IF Len(a) > n THEN a[n + 1] ELSE ""

\* lines 134-149
ValidateArgsNoIdCheck(cfg, a) ==
  LET i == IF cfg THEN First(a) ELSE Get(a, 1)
      r == IF cfg THEN "" ELSE First(a)
  IN IF cfg /\ Len(a) > 1 THEN [err |-> MsgOnlyId, id |-> i, ref |-> r]
     ELSE IF ~cfg /\ r = "" THEN [err |-> MsgRef, id |-> i, ref |-> r]
     ELSE [err |-> "", id |-> i, ref |-> r]

ValidateArgs(cfg, a) ==
  LET i == IF cfg THEN First(a) ELSE Get(a, 1)
      r == IF cfg THEN "" ELSE First(a)
  IN IF cfg /\ Len(a) > 1 THEN [err |-> MsgOnlyId, id |-> i, ref |-> r]
     ELSE IF ~cfg /\ r = "" THEN [err |-> MsgRef, id |-> i, ref |-> r]
     ELSE IF i = "" THEN [err |-> MsgId, id |-> i, ref |-> r]
     ELSE [err |-> "", id |-> i, ref |-> r]

\* line 166: context.Bool("rm") && !detach
RmCleanupAlsoDetached(r, d) == r
RmCleanupNever(r, d) == FALSE

RmCleanup(r, d) == r /\ ~d

\* line 190: !detach
TaskCleanupNever(d) == FALSE

TaskCleanup(d) == ~d

\* line 205: if detach { return nil }
ReturnsAfterStartAlways(d) == TRUE

ReturnsAfterStart(d) == d

\* lines 224-227
ExitOutcomeAlwaysNil(c) == Nil

ExitOutcome(c) == IF c # 0 THEN NewExitError("", c) ELSE Nil

\* a defer statement: deferred calls run last-registered first
PushFIFO(stack, d) == Append(stack, d)

Push(stack, d) == <<d>> \o stack

\* the deferred calls whose result the runtime could report as an error
CanFail(op) == op \in {"container.Delete", "task.Delete", "con.Reset"}


\* ---------------------------------------------------------------- mounts
\* A string is a sequence of symbols: the delimiters "," "=" ":" and words
\* (maximal runs of other characters).

\* specs.Mount{}
ZeroMount == [Type |-> <<>>, Source |-> <<>>, Destination |-> <<>>, Options |-> <<>>]

NoErr == [kind |-> "nil", key |-> <<>>]
\* io.EOF of csv.Reader.Read on an empty input
ErrEOF == [kind |-> "EOF", key |-> <<>>]
\* line 65
ErrKeyVal == [kind |-> "invalid mount specification: expected key=val", key |-> <<>>]
\* line 80
ErrNotSupported(key) == [kind |-> "mount option %q not supported", key |-> key]

\* strings.Split(s, sep): the pieces of s between the occurrences of sep
RECURSIVE Split(_, _)
Split(s, sep) ==
  IF s = <<>> THEN << <<>> >>
  ELSE LET rest == Split(Tail(s), sep)
       IN IF Head(s) = sep THEN << <<>> >> \o rest
          ELSE << <<Head(s)>> \o Head(rest) >> \o Tail(rest)

\* lines 55-60: one record of comma-separated fields (no quotes in the input)
CsvRead(str) ==
  IF str = <<>> THEN [fields |-> <<>>, err |-> ErrEOF]
  ELSE [fields |-> Split(str, ","), err |-> NoErr]

\* line 64: len(v) != 2 is an error
KeyValOkAtLeastTwo(v) == Len(v) >= 2

KeyValOk(v) == Len(v) = 2

\* lines 70-81
SetFieldNoAlias(mnt, key, val) ==
  CASE key = <<"type">> -> [mount |-> [mnt EXCEPT !.Type = val], err |-> NoErr]
    [] key = <<"source">> -> [mount |-> [mnt EXCEPT !.Source = val], err |-> NoErr]
    [] key = <<"destination">> -> [mount |-> [mnt EXCEPT !.Destination = val], err |-> NoErr]
    [] key = <<"options">> -> [mount |-> [mnt EXCEPT !.Options = Split(val, ":")], err |-> NoErr]
    [] OTHER -> [mount |-> mnt, err |-> ErrNotSupported(key)]

SetFieldIgnoringUnknown(mnt, key, val) ==
  CASE key = <<"type">> -> [mount |-> [mnt EXCEPT !.Type = val], err |-> NoErr]
    [] key \in {<<"source">>, <<"src">>} -> [mount |-> [mnt EXCEPT !.Source = val], err |-> NoErr]
    [] key \in {<<"destination">>, <<"dst">>} -> [mount |-> [mnt EXCEPT !.Destination = val], err |-> NoErr]
    [] key = <<"options">> -> [mount |-> [mnt EXCEPT !.Options = Split(val, ":")], err |-> NoErr]
    [] OTHER -> [mount |-> mnt, err |-> NoErr]

SetField(mnt, key, val) ==
  CASE key = <<"type">> -> [mount |-> [mnt EXCEPT !.Type = val], err |-> NoErr]
    [] key \in {<<"source">>, <<"src">>} -> [mount |-> [mnt EXCEPT !.Source = val], err |-> NoErr]
    [] key \in {<<"destination">>, <<"dst">>} -> [mount |-> [mnt EXCEPT !.Destination = val], err |-> NoErr]
    [] key = <<"options">> -> [mount |-> [mnt EXCEPT !.Options = Split(val, ":")], err |-> NoErr]
    [] OTHER -> [mount |-> mnt, err |-> ErrNotSupported(key)]

\* lines 62-84: the loop over the fields, stopping at the first error
RECURSIVE ParseFields(_, _)
ParseFields(fields, mnt) ==
  IF fields = <<>> THEN [mount |-> mnt, err |-> NoErr]
  ELSE LET v == Split(Head(fields), "=")
       IN IF ~KeyValOk(v) THEN [mount |-> mnt, err |-> ErrKeyVal]
          ELSE LET r == SetField(mnt, v[1], v[2])
               IN IF r.err # NoErr THEN r ELSE ParseFields(Tail(fields), r.mount)

\* lines 53-85
parseMountFlag(str) ==
  LET r == CsvRead(str)
  IN IF r.err # NoErr THEN [mount |-> ZeroMount, err |-> r.err]
     ELSE ParseFields(r.fields, ZeroMount)

\* the pieces a --mount value is written from, each a sequence of parts
\* joined by "="
Tokens ==
  { << <<"type">>, <<"bind">> >>,
    << <<"type">>, <<"tmpfs">> >>,
    << <<"source">>, <<"/s">> >>,
    << <<"src">>, <<"/s">> >>,
    << <<"destination">>, <<"/d">> >>,
    << <<"dst">>, <<"/d">> >>,
    << <<"options">>, <<"rbind", ":", "rw">> >>,
    << <<"foo">>, <<"bar">> >>,
    << <<"src">> >>,
    << <<"type">>, <<"a">>, <<"b">> >> }

\* strings.Join
RECURSIVE Join(_, _)
Join(pieces, sep) ==
  IF pieces = <<>> THEN <<>>
  ELSE IF Len(pieces) = 1 THEN pieces[1]
  ELSE pieces[1] \o <<sep>> \o Join(Tail(pieces), sep)

MountString(toks) == Join([i \in DOMAIN toks |-> Join(toks[i], "=")], ",")

\* ---------------------------------------------------------------- Init
Init ==
  /\ pc = "validate"
  /\ tty \in BOOLEAN
  /\ detach \in BOOLEAN
  /\ rm \in BOOLEAN
  /\ config \in BOOLEAN
  /\ pidFile \in BOOLEAN
  /\ args \in SeqsUpTo(Words, MaxArgs)
  /\ id = ""
  /\ ref = ""
  /\ defers = <<>>
  /\ registered = <<>>
  /\ calls = <<>>
  /\ statusC = [open |-> FALSE, buf |-> <<>>]
  /\ status = NoStatus
  /\ code = 0
  /\ taskState = "none"
  /\ sigc = "none"
  /\ sigq = 0
  /\ outcome = Pending
  /\ mtokens = <<>>
  /\ mstr = <<>>
  /\ mount = ZeroMount
  /\ merr = NoErr
  /\ mpc = "idle"

\* ---------------------------------------------------------------- steps
Return(o) == outcome' = o /\ pc' = "unwind"

Goto(l) == pc' = l /\ UNCHANGED outcome

Defer(d) == defers' = Push(defers, d) /\ registered' = Append(registered, d)

NoDefer == UNCHANGED <<defers, registered>>

\* lines 134-149
Validate ==
  /\ pc = "validate"
  /\ LET r == ValidateArgs(config, args)
     IN /\ id' = r.id
        /\ ref' = r.ref
        /\ IF r.err # "" THEN Return(Error(r.err)) ELSE Goto("newClient")
  /\ NoDefer
  /\ UNCHANGED <<flags, mountVars, sigq, calls, statusC, status, code, taskState, sigc>>

\* lines 152-156
NewClient ==
  /\ pc = "newClient"
  /\ \E ok \in BOOLEAN :
       /\ calls' = Append(calls, Call("commands.NewClient", ok, FALSE))
       /\ IF ok THEN Goto("newContainer") /\ Defer("cancel")
                ELSE Return(Error("commands.NewClient")) /\ NoDefer
  /\ UNCHANGED <<flags, mountVars, sigq, id, ref, statusC, status, code, taskState, sigc>>

\* lines 162-168
NewContainer ==
  /\ pc = "newContainer"
  /\ \E ok \in BOOLEAN :
       /\ calls' = Append(calls, Call("NewContainer", ok, FALSE))
       /\ IF ok THEN /\ Goto("console")
                     /\ IF RmCleanup(rm, detach) THEN Defer("container.Delete")
                                                 ELSE NoDefer
                ELSE Return(Error("NewContainer")) /\ NoDefer
  /\ UNCHANGED <<flags, mountVars, sigq, id, ref, statusC, status, code, taskState, sigc>>

\* lines 169-176
ConsoleSetRawBeforeDefer ==
  /\ pc = "console"
  /\ IF tty
       THEN \E ok \in BOOLEAN :
              /\ calls' = calls \o <<Call("console.Current", TRUE, FALSE),
                                     Call("con.SetRaw", ok, FALSE)>>
              /\ IF ok THEN Goto("newTask") /\ Defer("con.Reset")
                       ELSE Return(Error("con.SetRaw")) /\ NoDefer
       ELSE Goto("newTask") /\ NoDefer /\ UNCHANGED calls
  /\ UNCHANGED <<flags, mountVars, sigq, id, ref, statusC, status, code, taskState, sigc>>

Console ==
  /\ pc = "console"
  /\ IF tty
       THEN \E ok \in BOOLEAN :
              /\ calls' = calls \o <<Call("console.Current", TRUE, FALSE),
                                     Call("con.SetRaw", ok, FALSE)>>
              /\ Defer("con.Reset")
              /\ IF ok THEN Goto("newTask") ELSE Return(Error("con.SetRaw"))
       ELSE Goto("newTask") /\ NoDefer /\ UNCHANGED calls
  /\ UNCHANGED <<flags, mountVars, sigq, id, ref, statusC, status, code, taskState, sigc>>

\* lines 177-188
NewTask ==
  /\ pc = "newTask"
  /\ \E ok \in BOOLEAN :
       /\ calls' = Append(calls, Call("tasks.NewTask", ok, FALSE))
       /\ IF ok THEN Goto("wait") /\ taskState' = "created"
                ELSE Return(Error("tasks.NewTask")) /\ UNCHANGED taskState
  /\ NoDefer
  /\ UNCHANGED <<flags, mountVars, sigq, id, ref, statusC, status, code, sigc>>

\* lines 189-195
WaitShadowsStatusC ==
  /\ pc = "wait"
  /\ IF TaskCleanup(detach)
       THEN \E ok \in BOOLEAN :
              /\ Defer("task.Delete")
              /\ calls' = Append(calls, Call("task.Wait", ok, FALSE))
              /\ IF ok THEN Goto("pidFile") ELSE Return(Error("task.Wait"))
              /\ UNCHANGED statusC
       ELSE Goto("pidFile") /\ NoDefer /\ UNCHANGED <<calls, statusC>>
  /\ UNCHANGED <<flags, mountVars, sigq, id, ref, status, code, taskState, sigc>>

Wait ==
  /\ pc = "wait"
  /\ IF TaskCleanup(detach)
       THEN \E ok \in BOOLEAN :
              /\ Defer("task.Delete")
              /\ calls' = Append(calls, Call("task.Wait", ok, FALSE))
              /\ IF ok THEN Goto("pidFile") /\ statusC' = [open |-> TRUE, buf |-> <<>>]
                       ELSE Return(Error("task.Wait")) /\ UNCHANGED statusC
       ELSE Goto("pidFile") /\ NoDefer /\ UNCHANGED <<calls, statusC>>
  /\ UNCHANGED <<flags, mountVars, sigq, id, ref, status, code, taskState, sigc>>

\* lines 196-200
WritePidFileSkipped ==
  /\ pc = "pidFile"
  /\ Goto("start")
  /\ NoDefer
  /\ UNCHANGED <<flags, mountVars, sigq, id, ref, calls, statusC, status, code, taskState, sigc>>

WritePidFile ==
  /\ pc = "pidFile"
  /\ IF pidFile
       THEN \E ok \in BOOLEAN :
              /\ calls' = Append(calls, Call("commands.WritePidFile", ok, FALSE))
              /\ IF ok THEN Goto("start") ELSE Return(Error("commands.WritePidFile"))
       ELSE Goto("start") /\ UNCHANGED calls
  /\ NoDefer
  /\ UNCHANGED <<flags, mountVars, sigq, id, ref, statusC, status, code, taskState, sigc>>

\* lines 202-204
StartIgnoringError ==
  /\ pc = "start"
  /\ \E ok \in BOOLEAN :
       /\ calls' = Append(calls, Call("task.Start", ok, FALSE))
       /\ Goto("afterStart")
       /\ taskState' = IF ok THEN "running" ELSE taskState
  /\ NoDefer
  /\ UNCHANGED <<flags, mountVars, sigq, id, ref, statusC, status, code, sigc>>

Start ==
  /\ pc = "start"
  /\ \E ok \in BOOLEAN :
       /\ calls' = Append(calls, Call("task.Start", ok, FALSE))
       /\ IF ok THEN Goto("afterStart") /\ taskState' = "running"
                ELSE Return(Error("task.Start")) /\ UNCHANGED taskState
  /\ NoDefer
  /\ UNCHANGED <<flags, mountVars, sigq, id, ref, statusC, status, code, sigc>>

\* lines 205-215
AfterStartNoStopCatch ==
  /\ pc = "afterStart"
  /\ IF ReturnsAfterStart(detach)
       THEN Return(Nil) /\ NoDefer /\ UNCHANGED <<calls, sigc>>
       ELSE /\ Goto("recv")
            /\ NoDefer
            /\ IF tty
                 THEN \E ok \in BOOLEAN :
                        /\ calls' = Append(calls, Call("tasks.HandleConsoleResize", ok, FALSE))
                        /\ UNCHANGED sigc
                 ELSE /\ calls' = Append(calls, Call("commands.ForwardAllSignals", TRUE, FALSE))
                      /\ sigc' = "active"
  /\ UNCHANGED <<flags, mountVars, sigq, id, ref, statusC, status, code, taskState>>

AfterStart ==
  /\ pc = "afterStart"
  /\ IF ReturnsAfterStart(detach)
       THEN Return(Nil) /\ NoDefer /\ UNCHANGED <<calls, sigc>>
       ELSE /\ Goto("recv")
            /\ IF tty
                 THEN \E ok \in BOOLEAN :
                        /\ calls' = Append(calls, Call("tasks.HandleConsoleResize", ok, FALSE))
                        /\ NoDefer
                        /\ UNCHANGED sigc
                 ELSE /\ calls' = Append(calls, Call("commands.ForwardAllSignals", TRUE, FALSE))
                      /\ sigc' = "active"
                      /\ Defer("commands.StopCatch")
  /\ UNCHANGED <<flags, mountVars, sigq, id, ref, statusC, status, code, taskState>>

\* line 216: status := <-statusC blocks until the exit status is delivered
Recv ==
  /\ pc = "recv"
  /\ statusC.open
  /\ statusC.buf # <<>>
  /\ status' = Head(statusC.buf)
  /\ statusC' = [statusC EXCEPT !.buf = Tail(@)]
  /\ calls' = Append(calls, Call("statusC.recv", TRUE, FALSE))
  /\ Goto("result")
  /\ NoDefer
  /\ UNCHANGED <<flags, mountVars, sigq, id, ref, code, taskState, sigc>>

\* lines 217-220
Result ==
  /\ pc = "result"
  /\ calls' = Append(calls, Call("status.Result", ~status.err, FALSE))
  /\ code' = status.code
  /\ IF status.err THEN Return(Error("status.Result")) ELSE Goto("delete")
  /\ NoDefer
  /\ UNCHANGED <<flags, mountVars, sigq, id, ref, statusC, status, taskState, sigc>>

\* lines 221-223
DeleteTaskIgnoringError ==
  /\ pc = "delete"
  /\ \E ok \in BOOLEAN :
       /\ calls' = Append(calls, Call("task.Delete", ok, FALSE))
       /\ Goto("exitCode")
  /\ NoDefer
  /\ UNCHANGED <<flags, mountVars, sigq, id, ref, statusC, status, code, taskState, sigc>>

DeleteTask ==
  /\ pc = "delete"
  /\ \E ok \in BOOLEAN :
       /\ calls' = Append(calls, Call("task.Delete", ok, FALSE))
       /\ IF ok THEN Goto("exitCode") ELSE Return(Error("task.Delete"))
  /\ NoDefer
  /\ UNCHANGED <<flags, mountVars, sigq, id, ref, statusC, status, code, taskState, sigc>>

\* lines 224-227
MapExitCode ==
  /\ pc = "exitCode"
  /\ Return(ExitOutcome(code))
  /\ NoDefer
  /\ UNCHANGED <<flags, mountVars, sigq, id, ref, calls, statusC, status, code, taskState, sigc>>

\* function exit: the pending deferred calls run, most recent first
\* (lines 156, 167, 172, 191, 214); their results are discarded
RunDeferred ==
  /\ pc = "unwind"
  /\ defers # <<>>
  /\ LET d == Head(defers)
     IN /\ \E ok \in (IF CanFail(d) THEN BOOLEAN ELSE {TRUE}) :
             calls' = Append(calls, Call(d, ok, TRUE))
        /\ sigc' = IF d = "commands.StopCatch" THEN "stopped" ELSE sigc
  /\ defers' = Tail(defers)
  /\ UNCHANGED <<pc, flags, mountVars, sigq, id, ref, registered, statusC, status, code,
                 taskState, outcome>>

\* Command.Action has returned
Finish ==
  /\ pc = "unwind"
  /\ defers = <<>>
  /\ pc' = "done"
  /\ UNCHANGED <<flags, mountVars, sigq, id, ref, defers, registered, calls, statusC, status,
                 code, taskState, sigc, outcome>>

\* the started task exits; a status is delivered on the channel of task.Wait
TaskExit ==
  /\ taskState = "running"
  /\ taskState' = "stopped"
  /\ \E s \in Statuses :
       statusC' = IF statusC.open THEN [statusC EXCEPT !.buf = Append(@, s)]
                                  ELSE statusC
  /\ UNCHANGED <<pc, flags, mountVars, sigq, id, ref, defers, registered, calls, status, code,
                 sigc, outcome>>

\* a host signal arrives while the subscription is active
HostSignal ==
  /\ sigc = "active"
  /\ sigq + Cardinality({i \in DOMAIN calls : calls[i].op = "task.Kill"}) < MaxSignals
  /\ sigq' = sigq + 1
  /\ UNCHANGED <<pc, flags, mountVars, id, ref, defers, registered, calls,
                 statusC, status, code, taskState, sigc, outcome>>

\* the relay forwards a caught signal to the task as a kill request, for as
\* long as the subscription lasts
ForwardSignal ==
  /\ sigc = "active"
  /\ sigq > 0
  /\ sigq' = sigq - 1
  /\ calls' = Append(calls, Call("task.Kill", TRUE, FALSE))
  /\ UNCHANGED <<pc, flags, mountVars, id, ref, defers, registered, statusC,
                 status, code, taskState, sigc, outcome>>

Next ==
  \/ Validate
  \/ NewClient
  \/ NewContainer
  \/ Console
  \/ NewTask
  \/ Wait
  \/ WritePidFile
  \/ Start
  \/ AfterStart
  \/ Recv
  \/ Result
  \/ DeleteTask
  \/ MapExitCode
  \/ RunDeferred
  \/ Finish
  \/ TaskExit
  \/ HostSignal
  \/ ForwardSignal

Spec == Init /\ [][Next]_vars

\* parseMountFlag applied to one --mount value (withMounts, lines 41-42)
MountInit ==
  /\ pc = "mounts"
  /\ tty = FALSE
  /\ detach = FALSE
  /\ rm = FALSE
  /\ config = FALSE
  /\ pidFile = FALSE
  /\ args = <<>>
  /\ id = ""
  /\ ref = ""
  /\ defers = <<>>
  /\ registered = <<>>
  /\ calls = <<>>
  /\ statusC = [open |-> FALSE, buf |-> <<>>]
  /\ status = NoStatus
  /\ code = 0
  /\ taskState = "none"
  /\ sigc = "none"
  /\ sigq = 0
  /\ outcome = Pending
  /\ mtokens \in SeqsUpTo(Tokens, MaxTokens)
  /\ mstr = MountString(mtokens)
  /\ mount = ZeroMount
  /\ merr = NoErr
  /\ mpc = "parse"

ParseMount ==
  /\ mpc = "parse"
  /\ LET r == parseMountFlag(mstr)
     IN mount' = r.mount /\ merr' = r.err
  /\ mpc' = "done"
  /\ UNCHANGED <<runVars, mtokens, mstr>>

MountNext == ParseMount

MountSpec == MountInit /\ [][MountNext]_vars

\* the steps of Command.Action itself: every call it makes returns
Orchestrator ==
  \/ Validate
  \/ NewClient
  \/ NewContainer
  \/ Console
  \/ NewTask
  \/ Wait
  \/ WritePidFile
  \/ Start
  \/ AfterStart
  \/ Recv
  \/ Result
  \/ DeleteTask
  \/ MapExitCode
  \/ RunDeferred
  \/ Finish

\* every call returns and a started task eventually exits
FairSpec == Spec /\ WF_vars(Orchestrator) /\ WF_vars(TaskExit)

\* ---------------------------------------------------------------- history
Idx(op) == {i \in DOMAIN calls : calls[i].op = op}
Count(op) == Cardinality(Idx(op))
Called(op) == Idx(op) # {}
Succeeded(op) == \E i \in Idx(op) : calls[i].ok
Failed(op) == \E i \in Idx(op) : ~calls[i].ok
\* the task.Delete of line 221, as opposed to the deferred one of line 191
ExplicitDelete(ok) == \E i \in Idx("task.Delete") : calls[i].ok = ok /\ ~calls[i].deferred
Returning == pc \in {"unwind", "done"}
Returned == pc = "done"
DeferredOps == [i \in DOMAIN SelectSeq(calls, LAMBDA c : c.deferred) |->
                  SelectSeq(calls, LAMBDA c : c.deferred)[i].op]
Reverse(s) == [i \in DOMAIN s |-> s[Len(s) + 1 - i]]
IsPrefix(s, t) == Len(s) <= Len(t) /\ \A i \in DOMAIN s : s[i] = t[i]
\* every call of op a precedes every call of op b, and both were called
Before(a, b) == Called(a) /\ Called(b) /\ \A i \in Idx(a), j \in Idx(b) : i < j

\* ---------------------------------------------------------------- claims

\* C1: a run with detach=true never establishes the exit-status wait, never
\* subscribes the signal relay, never deletes the task or the instance (even
\* with rm set), never blocks on the exit status, and after a successful
\* start it returns success.
C1_DetachedRunOnlyStarts ==
  detach =>
    /\ ~Called("task.Wait")
    /\ ~Called("commands.ForwardAllSignals")
    /\ sigc = "none"
    /\ ~Called("task.Delete")
    /\ ~Called("container.Delete")
    /\ pc \notin {"recv", "result", "delete", "exitCode"}
    /\ (Succeeded("task.Start") => pc \in {"afterStart", "unwind", "done"})
    /\ (Succeeded("task.Start") /\ Returning => outcome = Nil)

C1_Witness ==
  detach /\ rm /\ Returned /\ Succeeded("task.Start") /\ outcome = Nil

\* C2: an attached run whose exit status was received and decoded without
\* error has invoked task deletion exactly once when it has returned,
\* the explicit and the deferred deletion counted together.
C2_TaskDeletedExactlyOnce ==
  (~detach /\ Returned /\ Succeeded("status.Result")) => Count("task.Delete") = 1

\* C3 (as stated): in an attached run whose task reports exit code N, the
\* outcome is success for N = 0 and the exit-code error (N, "") for N # 0,
\* whatever the explicit task deletion returned.
C3_OutcomeCarriesCodeWhateverDeletion ==
  (~detach /\ Returned /\ Succeeded("status.Result")) =>
     outcome = (IF status.code = 0 THEN Nil
                ELSE [kind |-> "exit", msg |-> "", code |-> status.code])

\* C3 (amended): the same, provided the explicit task deletion succeeded.
C3_OutcomeCarriesCode ==
  (~detach /\ Returned /\ Succeeded("status.Result") /\ ExplicitDelete(TRUE)) =>
     outcome = (IF status.code = 0 THEN Nil
                ELSE [kind |-> "exit", msg |-> "", code |-> status.code])

C3_Witness ==
  /\ ~detach /\ Returned /\ Succeeded("status.Result") /\ ExplicitDelete(TRUE)
  /\ status.code = MaxCode
  /\ outcome = [kind |-> "exit", msg |-> "", code |-> MaxCode]

\* C4: in a tty run in which con.SetRaw failed, no instance creation and no
\* task creation is ever issued and no instance deletion is attempted.
C4_RawFailureBeforeAnyCreation ==
  (tty /\ Failed("con.SetRaw")) =>
     /\ ~Called("NewContainer")
     /\ ~Called("tasks.NewTask")
     /\ ~Called("container.Delete")

\* C5 (as stated): every task deletion is preceded by the receipt of the
\* exit status or by a failed task creation or a failed start.
C5_DeletionOnlyAfterExitOrStartFailure ==
  \A i \in Idx("task.Delete") :
     \E j \in 1..(i - 1) :
        \/ calls[j].op = "statusC.recv"
        \/ calls[j].op \in {"tasks.NewTask", "task.Start"} /\ ~calls[j].ok

\* C5 (amended): every task deletion is preceded by the receipt of the exit
\* status or by a failed task creation, wait establishment, pid-file write
\* or start; a task that was started is deleted only after its exit status
\* was received.
C5_DeletionOnlyAfterExitOrFailure ==
  \A i \in Idx("task.Delete") :
     /\ \E j \in 1..(i - 1) :
          \/ calls[j].op = "statusC.recv"
          \/ /\ calls[j].op \in {"tasks.NewTask", "task.Wait",
                                 "commands.WritePidFile", "task.Start"}
             /\ ~calls[j].ok
     /\ (\E j \in 1..(i - 1) : calls[j].op = "task.Start" /\ calls[j].ok)
           => \E k \in 1..(i - 1) : calls[k].op = "statusC.recv"

C5_Witness ==
  /\ ~detach /\ Returned /\ Failed("commands.WritePidFile")
  /\ ~Called("task.Start") /\ Count("task.Delete") = 1

\* C6: once the console was acquired, con.Reset has been invoked exactly once
\* when the run has returned, never more than once before, on every exit
\* path; a non-tty run never acquires, sets raw or resets the console.
C6_ConsoleResetExactlyOnce ==
  /\ Count("con.Reset") <= 1
  /\ (Returned /\ Called("console.Current")) => Count("con.Reset") = 1
  /\ ~Called("console.Current") => ~Called("con.Reset")
  /\ ~tty => /\ ~Called("console.Current")
             /\ ~Called("con.SetRaw")
             /\ ~Called("con.Reset")

C6_Witness ==
  tty /\ Returned /\ Failed("con.SetRaw") /\ Count("con.Reset") = 1

\* C7: with rm set and detach unset, once NewContainer succeeded the instance
\* deletion has been invoked exactly once when the run has returned, whatever
\* failed later; with rm unset or NewContainer failed it is never invoked.
C7_InstanceDeletedExactlyOnce ==
  /\ Count("container.Delete") <= 1
  /\ (Returned /\ rm /\ ~detach /\ Succeeded("NewContainer"))
        => Count("container.Delete") = 1
  /\ (~rm \/ ~Succeeded("NewContainer")) => ~Called("container.Delete")

C7_Witness ==
  /\ rm /\ ~detach /\ Returned /\ Failed("task.Start")
  /\ Count("container.Delete") = 1

\* C8: the deferred calls run in reverse order of their registration; the
\* instance deletion follows every task deletion and the console reset; and
\* in an attached rm run whose task exits 0 and whose deletion succeeds the
\* calls come in the order create instance, create task, start, exit status,
\* task deletion, instance deletion, and the outcome is success.
C8_CleanupInReverseOrder ==
  /\ IsPrefix(DeferredOps, Reverse(registered))
  /\ Returned => DeferredOps = Reverse(registered)
  /\ \A i \in Idx("container.Delete") :
        \A j \in DOMAIN calls :
           calls[j].op \in {"task.Delete", "con.Reset"} => j < i
  /\ (/\ rm /\ ~detach /\ Returned
      /\ Succeeded("status.Result") /\ status.code = 0 /\ ExplicitDelete(TRUE))
       => /\ Before("NewContainer", "tasks.NewTask")
          /\ Before("tasks.NewTask", "task.Start")
          /\ Before("task.Start", "statusC.recv")
          /\ Before("statusC.recv", "task.Delete")
          /\ Before("task.Delete", "container.Delete")
          /\ outcome = Nil

C8_Witness ==
  /\ rm /\ ~detach /\ tty /\ Returned
  /\ Succeeded("status.Result") /\ status.code = 0 /\ ExplicitDelete(TRUE)
  /\ Called("con.Reset") /\ Called("container.Delete")
  /\ outcome = Nil

\* C9: when the positional arguments are invalid the run fails with an
\* invalid-arguments error, no call of any kind is issued (no client
\* connection, creation, wait, start or deletion) and no cleanup registered.
ArgsInvalid ==
  \/ config /\ Len(args) > 1
  \/ ~config /\ (Len(args) = 0 \/ args[1] = "")
  \/ config /\ (Len(args) = 0 \/ args[1] = "")
  \/ ~config /\ (Len(args) < 2 \/ args[2] = "")

C9_InvalidArgsNoRemoteCall ==
  ArgsInvalid =>
    /\ calls = <<>>
    /\ registered = <<>>
    /\ defers = <<>>
    /\ pc \in {"validate", "unwind", "done"}
    /\ pc # "validate" => /\ outcome.kind = "error"
                          /\ outcome.msg \in {MsgOnlyId, MsgRef, MsgId}

C9_Witness ==
  /\ ~config /\ Len(args) = 1 /\ args[1] # ""
  /\ Returned /\ outcome.kind = "error" /\ outcome.msg = MsgId /\ calls = <<>>

\* C10: in an attached run whose exit status decoded without error and whose
\* explicit task deletion failed, the outcome is the deletion error.
C10_DeletionErrorIsOutcome ==
  (~detach /\ Returning /\ Succeeded("status.Result") /\ ExplicitDelete(FALSE))
     => outcome = Error("task.Delete")

C10_Witness ==
  /\ ~detach /\ Returned /\ Succeeded("status.Result") /\ ExplicitDelete(FALSE)
  /\ status.code = 1 /\ outcome = Error("task.Delete")

\* C11: in an attached non-tty run the signal subscription made after a
\* successful start is released by StopCatch exactly once when the run has
\* returned, however the wait completed; no run returns with the
\* subscription active; tty and detached runs never subscribe.
C11_SubscriptionReleasedOnce ==
  /\ Count("commands.StopCatch") <= 1
  /\ Called("commands.StopCatch") => Called("commands.ForwardAllSignals")
  /\ Called("commands.ForwardAllSignals") => ~tty /\ ~detach /\ Succeeded("task.Start")
  /\ (Returned /\ Called("commands.ForwardAllSignals"))
        => Count("commands.StopCatch") = 1 /\ sigc = "stopped"
  /\ Returned => sigc # "active"
  /\ (tty \/ detach) => ~Called("commands.ForwardAllSignals") /\ sigc = "none"

C11_Witness ==
  /\ ~tty /\ ~detach /\ Returned /\ Failed("status.Result")
  /\ Count("commands.StopCatch") = 1 /\ sigc = "stopped"

\* C12: when task.Start fails the run fails with the start error, never
\* receives from the exit-status channel and never starts the signal or
\* resize forwarder, and when it has returned the registered cleanups have
\* run: the task deletion exactly once in an attached run, the console reset
\* once in a tty run, the instance deletion once in an attached rm run.
C12_StartFailureRunsCleanups ==
  Failed("task.Start") =>
    /\ Returning
    /\ outcome = Error("task.Start")
    /\ ~Called("statusC.recv")
    /\ ~Called("commands.ForwardAllSignals")
    /\ ~Called("tasks.HandleConsoleResize")
    /\ sigc = "none"
    /\ Returned =>
         /\ Count("task.Delete") = (IF detach THEN 0 ELSE 1)
         /\ Count("con.Reset") = (IF tty THEN 1 ELSE 0)
         /\ Count("container.Delete") = (IF rm /\ ~detach THEN 1 ELSE 0)

C12_Witness ==
  /\ Failed("task.Start") /\ Returned /\ ~detach /\ tty /\ rm
  /\ Count("task.Delete") = 1 /\ Count("con.Reset") = 1
  /\ Count("container.Delete") = 1

\* C13: with a pid file requested, the pid write is attempted exactly once in
\* every run that gets past task creation and wait establishment, after the
\* successful task creation and before any start; a failed write is the
\* outcome and start is never invoked; with no pid file requested no write
\* is attempted.
C13_PidWrittenOnceBeforeStart ==
  /\ Count("commands.WritePidFile") <= 1
  /\ ~pidFile => ~Called("commands.WritePidFile")
  /\ \A i \in Idx("commands.WritePidFile") :
        /\ \E j \in 1..(i - 1) : calls[j].op = "tasks.NewTask" /\ calls[j].ok
        /\ \A j \in 1..(i - 1) : calls[j].op # "task.Start"
  /\ (pidFile /\ Called("task.Start")) => Count("commands.WritePidFile") = 1
  /\ (pidFile /\ Succeeded("tasks.NewTask") /\ ~Failed("task.Wait")
        /\ pc \notin {"wait", "pidFile"})
        => Count("commands.WritePidFile") = 1
  /\ Failed("commands.WritePidFile")
        => /\ ~Called("task.Start")
           /\ Returning
           /\ outcome = Error("commands.WritePidFile")

C13_Witness ==
  /\ pidFile /\ Returned /\ Failed("commands.WritePidFile")
  /\ ~Called("task.Start") /\ outcome = Error("commands.WritePidFile")

\* C18: in an attached run task.Wait is established after the task creation
\* and before any start, so the exit status a started task delivers is held
\* by the channel until the orchestrator receives it; when task.Wait fails
\* start is never invoked.
C18_WaitEstablishedBeforeStart ==
  ~detach =>
    /\ \A i \in Idx("task.Start") :
          \E j \in 1..(i - 1) : calls[j].op = "task.Wait" /\ calls[j].ok
    /\ \A i \in Idx("task.Wait") :
          \E j \in 1..(i - 1) : calls[j].op = "tasks.NewTask" /\ calls[j].ok
    /\ Failed("task.Wait") => ~Called("task.Start")
    /\ Called("task.Start") => statusC.open
    /\ taskState = "stopped" => (Len(statusC.buf) = 1 \/ Called("statusC.recv"))

C18_Witness ==
  /\ ~detach /\ taskState = "stopped" /\ Len(statusC.buf) = 1
  /\ pc = "afterStart"

\* C19: the signal relay forwards a host signal to the task only after
\* task.Start succeeded and never after a task deletion has been issued.
C19_SignalsOnlyToLiveTask ==
  \A i \in Idx("task.Kill") :
     /\ \E j \in 1..(i - 1) : calls[j].op = "task.Start" /\ calls[j].ok
     /\ \A j \in 1..(i - 1) : calls[j].op # "task.Delete"

\* C20: under fairness every run terminates with exactly one outcome
\* (success, a diagnostic error or an exit-code error), never changed once
\* set; at termination every registered cleanup has been executed; every
\* forward step is invoked at most once and nothing but cleanup follows a
\* failed one; instance creation, task creation and start come in that order.
ForwardOps ==
  {"commands.NewClient", "NewContainer", "console.Current", "con.SetRaw",
   "tasks.NewTask", "task.Wait", "commands.WritePidFile", "task.Start",
   "commands.ForwardAllSignals", "tasks.HandleConsoleResize", "statusC.recv",
   "status.Result"}

C20_State ==
  /\ Returning <=> outcome # Pending
  /\ outcome.kind \in {"pending", "nil", "error", "exit"}
  /\ Returned => /\ defers = <<>>
                 /\ DeferredOps = Reverse(registered)
                 /\ sigc # "active"
  /\ \A op \in ForwardOps : Count(op) <= 1
  /\ \A i \in DOMAIN calls :
        (~calls[i].ok /\ calls[i].op # "tasks.HandleConsoleResize" /\ ~calls[i].deferred)
           => \A j \in (i + 1)..Len(calls) :
                 calls[j].deferred \/ calls[j].op = "task.Kill"
  /\ \A i \in Idx("tasks.NewTask") :
        \E j \in 1..(i - 1) : calls[j].op = "NewContainer" /\ calls[j].ok
  /\ \A i \in Idx("task.Start") :
        \E j \in 1..(i - 1) : calls[j].op = "tasks.NewTask" /\ calls[j].ok

C20_TerminatesCleanedUp ==
  /\ <>(pc = "done")
  /\ []C20_State
  /\ [][outcome # Pending => outcome' = outcome]_vars

C20_Witness ==
  /\ Returned /\ ~detach /\ ~tty /\ rm
  /\ outcome.kind = "exit"
  /\ registered = <<"cancel", "container.Delete", "task.Delete", "commands.StopCatch">>
  /\ DeferredOps = Reverse(registered)

\* ---------------------------------------------------------------- mounts
WellFormed(tok) == Len(tok) = 2
Key(tok) == tok[1]
Val(tok) == tok[2]
\* the field a recognized key names, through its alias
Field(tok) ==
  CASE Key(tok) = <<"type">> -> "type"
    [] Key(tok) \in {<<"source">>, <<"src">>} -> "source"
    [] Key(tok) \in {<<"destination">>, <<"dst">>} -> "destination"
    [] Key(tok) = <<"options">> -> "options"
    [] OTHER -> "none"
Recognized(tok) == WellFormed(tok) /\ Field(tok) # "none"
AllBefore(i) == \A j \in 1..(i - 1) : Recognized(mtokens[j])
TokenOf(f) == CHOOSE t \in {mtokens[i] : i \in DOMAIN mtokens} : Field(t) = f
FourFields ==
  /\ Len(mtokens) = 4
  /\ \A i \in DOMAIN mtokens : Recognized(mtokens[i])
  /\ {Field(mtokens[i]) : i \in DOMAIN mtokens}
        = {"type", "source", "destination", "options"}
Parsed == mpc = "done"

\* C14: a mount string made of one type, one source (or src), one
\* destination (or dst) and one options=o1:o2 token, in any order, parses
\* without error to the record of these four values, the options in order.
C14_FourTokensAnyOrder ==
  (Parsed /\ FourFields) =>
     /\ merr = NoErr
     /\ mount = [Type |-> Val(TokenOf("type")),
                 Source |-> Val(TokenOf("source")),
                 Destination |-> Val(TokenOf("destination")),
                 Options |-> << <<"rbind">>, <<"rw">> >>]

C14_Witness ==
  /\ Parsed /\ FourFields
  /\ Key(mtokens[1]) = <<"options">> /\ Key(mtokens[2]) = <<"dst">>
  /\ Key(mtokens[3]) = <<"src">> /\ Key(mtokens[4]) = <<"type">>
  /\ mount.Source = <<"/s">> /\ mount.Options = << <<"rbind">>, <<"rw">> >>

\* C15: a mount string with a token that has no "=" or more than one,
\* preceded only by well-formed recognized tokens, fails with the
\* expected-key=val error.
C15_MalformedTokenRejected ==
  (Parsed /\ \E i \in DOMAIN mtokens : ~WellFormed(mtokens[i]) /\ AllBefore(i))
     => merr = ErrKeyVal

C15_Witness ==
  /\ Parsed /\ Len(mtokens) = 3
  /\ Recognized(mtokens[1]) /\ Len(mtokens[2]) = 3 /\ merr = ErrKeyVal

\* C16: a mount string with a well-formed token whose key is none of type,
\* source, src, destination, dst, options, preceded only by well-formed
\* recognized tokens, fails with the not-supported error for that key.
C16_UnknownKeyRejected ==
  \A i \in DOMAIN mtokens :
     (Parsed /\ WellFormed(mtokens[i]) /\ Field(mtokens[i]) = "none" /\ AllBefore(i))
        => merr = [kind |-> "mount option %q not supported", key |-> Key(mtokens[i])]

C16_Witness ==
  /\ Parsed /\ Len(mtokens) = 2 /\ Recognized(mtokens[1])
  /\ Key(mtokens[2]) = <<"foo">> /\ merr.key = <<"foo">>

\* C17: a mount string that parses without error names every recognized
\* field (type; source/src; destination/dst; options) at most once.
C17_FieldsAtMostOnce ==
  (Parsed /\ merr = NoErr) =>
     \A i, j \in DOMAIN mtokens :
        (i # j /\ Recognized(mtokens[i]) /\ Recognized(mtokens[j]))
           => Field(mtokens[i]) # Field(mtokens[j])

====
